---------------------------- MODULE Spec2Model ----------------------------
(***************************************************************************)
(* A model of the Git-Client repository: the content-addressed object      *)
(* store (object_store.py), the staging index (index_manager.py), tree and *)
(* commit construction and the reachability traversal (commit_manager.py)  *)
(* and the push protocol (remote_manager.py).                              *)
(*                                                                         *)
(* Byte strings and Python strings are sequences of chunks.  A chunk is a  *)
(* record that stands for a run of bytes:                                  *)
(*   [byte |-> n]          the single byte n                               *)
(*   [txt |-> s]           the ASCII text s (no NUL, blank or newline)     *)
(*   [utf8 |-> s, n |-> k] the UTF-8 encoding of the text s (k bytes)      *)
(*   [bytes |-> b]         the bytes whose values are the numbers of b     *)
(*   [num |-> n]           the decimal digits of n                         *)
(*   [oct |-> n]           the octal digits of n                           *)
(*   [pad2 |-> n]          the decimal digits of n, zero-padded to two     *)
(*   [len4 |-> n]          n as four lowercase hexadecimal digits          *)
(*   [struct |-> t]        the 12 bytes of struct.pack('!4sLL', ...) of t  *)
(*   [z |-> b]             zlib.compress(b)                                *)
(*   [hex |-> d, n |-> k]  the first k hexadecimal digits of the SHA-1     *)
(*                         digest d, as ASCII characters (k bytes)         *)
(*   [raw |-> d]           the 20 raw bytes of the SHA-1 digest d          *)
(*   [hexhex |-> b]        the hexadecimal rendering, two digits per byte, *)
(*                         of the bytes b (other than a raw digest)        *)
(* SHA-1 is modelled as a collision-free function: the digest of a buffer  *)
(* is the record [sha1 |-> buffer].                                        *)
(***************************************************************************)
EXTENDS Integers, Sequences, FiniteSets, TLC

VARIABLES
    objects,   \* .git/objects: hash string -> compressed file content
    writes,    \* per object path, the number of physical writes so far
    index,     \* .git/index: <<>> when the file is absent, else <<file>>
    master,    \* .git/refs/heads/master: <<>> when absent, else <<content>>
    pc,        \* position of the running command ("idle" between commands)
    loc,       \* the running command's local variables
    net,       \* HTTP requests issued by the running/last push, in order
    out        \* what the last command printed or raised

vars == <<objects, writes, index, master, pc, loc, net, out>>

-----------------------------------------------------------------------------
(* Bounds of the model *)

MaxLen == 2        \* longest raw content handed to store_object (ObjSpec)
MaxObjs == 2       \* most objects stored in ObjSpec
MaxPaths == 2      \* longest path list of one add
MaxCommits == 2    \* most create_commit calls in one behaviour

-----------------------------------------------------------------------------
(* Bytes *)

NUL == [byte |-> 0]
SP == [byte |-> 32]
NL == [byte |-> 10]
TAB == [byte |-> 9]
B(n) == [byte |-> n]
Txt(s) == [txt |-> s]
Num(n) == [num |-> n]

\* Python's None, kept apart from every string (the empty string is <<>>).
None == <<[none |-> TRUE]>>

\* str.encode() and bytes.decode() (UTF-8).  A text is a string of the
\* characters '.', '/', the digits and the lower-case letters, of one byte
\* each, and é, of the two bytes C3 A9.
Chars == "./0123456789abcdefghijklmnopqrstuvwxyz"
CharCodes == [i \in 1 .. Len(Chars) |-> IF i <= 12 THEN 45 + i ELSE 84 + i]

\* s.find(ch) + 1
StrIndex(s, ch) ==
    LET at == {i \in 1 .. Len(s) : SubSeq(s, i, i) = ch}
    IN  IF at = {} THEN 0 ELSE CHOOSE i \in at : \A j \in at : i <= j

\* ch.encode() of one character
CharBytes(ch) == IF ch = "é" THEN <<195, 169>> ELSE <<CharCodes[StrIndex(Chars, ch)]>>

\* s.encode()
RECURSIVE StrBytes(_)
StrBytes(s) ==
    IF s = "" THEN <<>>
    ELSE CharBytes(SubSeq(s, 1, 1)) \o StrBytes(SubSeq(s, 2, Len(s)))

\* The length of the UTF-8 sequence that starts with byte c, 0 if none does
Utf8SeqLen(c) ==
    IF c \in 0 .. 127 THEN 1
    ELSE IF c \in 194 .. 223 THEN 2
    ELSE IF c \in 224 .. 239 THEN 3
    ELSE IF c \in 240 .. 244 THEN 4
    ELSE 0

\* A well-formed UTF-8 sequence starts at b[i]
Utf8Valid(b, i) ==
    LET c == b[i]
        k == Utf8SeqLen(c)
    IN  /\ k > 0 /\ Len(b) >= i + k - 1
        /\ k >= 2 => b[i + 1] \in (IF c = 224 THEN 160 ELSE IF c = 240 THEN 144 ELSE 128)
                                 .. (IF c = 237 THEN 159 ELSE IF c = 244 THEN 143 ELSE 191)
        /\ \A j \in 2 .. k - 1 : b[i + j] \in 128 .. 191

\* The character that starts at b[i], "" if it is not one of the model's
CharAt(b, i) ==
    IF b[i] \in 46 .. 57 THEN SubSeq(Chars, b[i] - 45, b[i] - 45)
    ELSE IF b[i] \in 97 .. 122 THEN SubSeq(Chars, b[i] - 84, b[i] - 84)
    ELSE IF b[i] = 195 /\ b[i + 1] = 169 THEN "é"
    ELSE ""

\* b[i:].decode() appended to str: the text, or the error raised.  known
\* is FALSE once a character was met that is not one of the model's; the
\* result is then "Unmodelled" unless the bytes are not UTF-8 at all.
RECURSIVE Decode(_, _, _, _)
Decode(b, i, str, known) ==
    IF i > Len(b) THEN [err |-> IF known THEN "" ELSE "Unmodelled", str |-> str]
    ELSE IF ~Utf8Valid(b, i) THEN [err |-> "UnicodeDecodeError", str |-> ""]
    ELSE Decode(b, i + Utf8SeqLen(b[i]), str \o CharAt(b, i),
                known /\ CharAt(b, i) # "")

RECURSIVE Digits(_)
Digits(n) == IF n < 10 THEN 1 ELSE 1 + Digits(n \div 10)

\* The number of octal digits of n
RECURSIVE OctDigits(_)
OctDigits(n) == IF n < 8 THEN 1 ELSE 1 + OctDigits(n \div 8)

RECURSIVE ByteLen(_)
ChunkLen(c) ==
    IF "byte" \in DOMAIN c THEN 1
    ELSE IF "txt" \in DOMAIN c THEN Len(c.txt)
    ELSE IF "utf8" \in DOMAIN c THEN c.n
    ELSE IF "bytes" \in DOMAIN c THEN Len(c.bytes)
    ELSE IF "num" \in DOMAIN c THEN Digits(c.num)
    ELSE IF "oct" \in DOMAIN c THEN OctDigits(c.oct)
    ELSE IF "hex" \in DOMAIN c THEN c.n
    ELSE IF "raw" \in DOMAIN c THEN 20
    ELSE IF "hexhex" \in DOMAIN c THEN 2 * ByteLen(c.hexhex)
    ELSE IF "len4" \in DOMAIN c THEN 4
    ELSE IF "struct" \in DOMAIN c THEN 12
    ELSE IF "pad2" \in DOMAIN c THEN (IF c.pad2 < 100 THEN 2 ELSE Digits(c.pad2))
    ELSE 0

\* len(data)
ByteLen(s) == IF s = <<>> THEN 0 ELSE ChunkLen(Head(s)) + ByteLen(Tail(s))

\* data.find(c, from): the first position >= from holding chunk c, 0 if none
RECURSIVE Find(_, _, _)
Find(s, c, from) ==
    IF from > Len(s) THEN 0
    ELSE IF s[from] = c THEN from
    ELSE Find(s, c, from + 1)

\* str.split(): the maximal runs of non-blank chunks
RECURSIVE SplitWs(_)
SplitWs(s) ==
    IF s = <<>> THEN <<>>
    ELSE IF Head(s) \in {SP, TAB, NL} THEN SplitWs(Tail(s))
    ELSE LET rest == SplitWs(Tail(s))
         IN  IF Len(s) > 1 /\ s[2] \notin {SP, TAB, NL}
             THEN <<(<<Head(s)>> \o Head(rest))>> \o Tail(rest)
             ELSE <<(<<Head(s)>>)>> \o rest

\* bytes.split(sep): the pieces between the occurrences of chunk sep
RECURSIVE SplitOn(_, _)
SplitOn(s, sep) ==
    LET i == Find(s, sep, 1)
    IN  IF i = 0 THEN <<s>>
        ELSE <<SubSeq(s, 1, i - 1)>> \o SplitOn(SubSeq(s, i + 1, Len(s)), sep)

RECURSIVE Join(_, _)
Join(lines, sep) ==
    IF lines = <<>> THEN <<>>
    ELSE IF Len(lines) = 1 THEN lines[1]
    ELSE lines[1] \o <<sep>> \o Join(Tail(lines), sep)

Range(f) == {f[i] : i \in DOMAIN f}

RECURSIVE Concat(_)
Concat(ss) == IF ss = <<>> THEN <<>> ELSE Head(ss) \o Concat(Tail(ss))

-----------------------------------------------------------------------------
(* object_store.py *)

Sha1(buf) == [sha1 |-> buf]
HexDigest(d) == <<[hex |-> d, n |-> 40]>>

\* bytes.hex(): two hexadecimal digits per byte
Hexlify(b) ==
    IF Len(b) = 1 /\ "raw" \in DOMAIN b[1] THEN HexDigest(b[1].raw)
    ELSE <<[hexhex |-> b]>>

zlib_compress(buf) == [z |-> buf]
zlib_decompress(file) == file.z

compute_hash(data, obj_type) ==
    LET header == <<Txt(obj_type), SP, Num(ByteLen(data))>>
        full_data == header \o <<NUL>> \o data
    IN  [sha1_hash |-> HexDigest(Sha1(full_data)), full_data |-> full_data]

\* os.path.exists(object_path)
ObjectExists(objs, sha1_hash) == sha1_hash \in DOMAIN objs

\* A faulty variant of store_object that rewrites the file on every call.
store_object_rewrite(fs, data, obj_type) ==
    LET c == compute_hash(data, obj_type)
        h == c.sha1_hash
    IN  [hash |-> h,
         objects |-> [x \in DOMAIN fs.objects \cup {h} |->
                        IF x = h THEN zlib_compress(c.full_data) ELSE fs.objects[x]],
         writes |-> [x \in DOMAIN fs.objects \cup {h} |->
                        IF x = h
                        THEN (IF h \in DOMAIN fs.writes THEN fs.writes[h] + 1 ELSE 1)
                        ELSE fs.writes[x]]]

\* store_object(data, obj_type, repo_path) on the object directory
\* fs = [objects, writes]; returns the hash and the directory afterwards.
store_object(fs, data, obj_type) ==
    LET c == compute_hash(data, obj_type)
        h == c.sha1_hash
    IN  IF ~ObjectExists(fs.objects, h)
        THEN [hash |-> h,
              objects |-> [x \in DOMAIN fs.objects \cup {h} |->
                             IF x = h THEN zlib_compress(c.full_data) ELSE fs.objects[x]],
              writes |-> [x \in DOMAIN fs.objects \cup {h} |->
                             IF x = h THEN 1 ELSE fs.writes[x]]]
        ELSE [hash |-> h, objects |-> fs.objects, writes |-> fs.writes]

Ok(type, data) == [err |-> "", type |-> type, data |-> data]
Raise(e) == [err |-> e, type |-> "", data |-> <<>>]

\* A faulty variant of retrieve_object that splits at every NUL and keeps the
\* second piece (split(b'\x00') without maxsplit).
retrieve_object_splitall(objs, sha1_hash) ==
    IF sha1_hash = None THEN Raise("TypeError")
    ELSE IF ~ObjectExists(objs, sha1_hash) THEN Raise("FileNotFoundError")
    ELSE LET full_data == zlib_decompress(objs[sha1_hash])
             parts == SplitOn(full_data, NUL)
             words == SplitWs(parts[1])
         IN  IF Len(parts) < 2 \/ Len(words) # 2 THEN Raise("ValueError")
             ELSE Ok(words[1][1].txt, parts[2])

\* retrieve_object(sha1_hash, repo_path)
retrieve_object(objs, sha1_hash) ==
    IF sha1_hash = None THEN Raise("TypeError")
    ELSE IF ~ObjectExists(objs, sha1_hash) THEN Raise("FileNotFoundError")
    ELSE LET full_data == zlib_decompress(objs[sha1_hash])
             nul == Find(full_data, NUL, 1)
             header == SubSeq(full_data, 1, nul - 1)
             data == SubSeq(full_data, nul + 1, Len(full_data))
             words == SplitWs(header)
         IN  IF nul = 0 \/ Len(words) # 2 THEN Raise("ValueError")
             ELSE Ok(words[1][1].txt, data)

-----------------------------------------------------------------------------
(* index_manager.py *)

Paths == {"a.txt", "b.txt"}

\* The file contents the working tree may hold: "hello", and a content with
\* a NUL byte in it.
Hello == <<Txt("hello")>>
FileContents == {Hello, <<NUL, Txt("x")>>}
Missing == <<[missing |-> TRUE]>>

\* os.stat(path): a regular file for a.txt, an executable one for b.txt.
Stat(path, content) ==
    [st_ctime |-> 1700000000, st_mtime |-> 1700000001, st_dev |-> 65024,
     st_ino |-> IF path = "a.txt" THEN 11 ELSE 12,
     st_mode |-> IF path = "a.txt" THEN 33188 ELSE 33261,
     st_uid |-> 1000, st_gid |-> 100, st_size |-> ByteLen(content)]

\* x & 0xFFFFFFFF for x >= 0: the low 16 bits, and the next 16 above them
Mask32(x) == (x % 65536) + 65536 * ((x \div 65536) % 65536)

\* struct's '20s': exactly 20 bytes, a longer value cut, a shorter one padded
RECURSIVE Nuls(_)
Nuls(k) == IF k <= 0 THEN <<>> ELSE <<NUL>> \o Nuls(k - 1)

Pack20s(b) ==
    IF ByteLen(b) = 20 THEN b
    ELSE IF ByteLen(b) < 20 THEN b \o Nuls(20 - ByteLen(b))
    ELSE IF "hex" \in DOMAIN b[1] THEN <<[hex |-> b[1].hex, n |-> 20]>>
    ELSE <<b[1]>>

\* The length of one entry's record in the index file, as both write_index
\* and read_index compute it.
EntryLen(pathlen) == ((62 + pathlen + 8) \div 8) * 8

\* write_index(entries, repo_path): the bytes written to .git/index
write_index(entries) ==
    LET pack(e) ==
            LET path_bytes == <<[utf8 |-> e.path, n |-> Len(StrBytes(e.path))]>>
                entry_data_len == 62 + ByteLen(path_bytes) + 1
            IN  [fields |-> <<Mask32(e.ctime_s), Mask32(e.ctime_n),
                              Mask32(e.mtime_s), Mask32(e.mtime_n),
                              Mask32(e.dev), Mask32(e.ino), Mask32(e.mode),
                              Mask32(e.uid), Mask32(e.gid), Mask32(e.size)>>,
                 sha1 |-> Pack20s(e.sha1),
                 flags |-> e.flags,
                 path |-> path_bytes,
                 pad |-> EntryLen(ByteLen(path_bytes)) - entry_data_len]
        data == [signature |-> "DIRC", version |-> 2, num_entries |-> Len(entries),
                 records |-> [i \in 1 .. Len(entries) |-> pack(entries[i])]]
    IN  [data |-> data, checksum |-> Sha1(<<[indexdata |-> data]>>)]

\* The hexadecimal digits of the digests of the blobs of FileContents
HelloDigest == Sha1(<<Txt("blob"), SP, Num(5), NUL, Txt("hello")>>)
NulXDigest == Sha1(<<Txt("blob"), SP, Num(2), NUL, NUL, Txt("x")>>)

HexText(d) ==
    IF d = HelloDigest THEN "b6fc4c620b67d95f953a5c1c1230aaab5db5a1b0"
    ELSE IF d = NulXDigest THEN "718882ce3e4b770a94fed2050e5fb06aac7af37d"
    ELSE ""

\* The first 20 digits of those digests, as bytes
HelloPrefix == StrBytes(SubSeq(HexText(HelloDigest), 1, 20))
NulXPrefix == StrBytes(SubSeq(HexText(NulXDigest), 1, 20))

\* The 20 bytes b as a chunk: the first 20 digits of a digest above where
\* they are that, so that a record read byte by byte and one read whole
\* give the same value
Sha1Field(b) ==
    IF b = HelloPrefix THEN <<[hex |-> HelloDigest, n |-> 20]>>
    ELSE IF b = NulXPrefix THEN <<[hex |-> NulXDigest, n |-> 20]>>
    ELSE <<[bytes |-> b]>>

\* A byte whose value the model does not have: one of the file's checksum,
\* or of a digest that HexText does not list
Unknown == 0 - 1

\* The values of the bytes of a chunk of an index record
ChunkBytes(c) ==
    IF "byte" \in DOMAIN c THEN <<c.byte>>
    ELSE IF "bytes" \in DOMAIN c THEN c.bytes
    ELSE IF "utf8" \in DOMAIN c THEN StrBytes(c.utf8)
    ELSE IF "hex" \in DOMAIN c /\ c.hex = HelloDigest THEN SubSeq(HelloPrefix, 1, c.n)
    ELSE IF "hex" \in DOMAIN c /\ c.hex = NulXDigest THEN SubSeq(NulXPrefix, 1, c.n)
    ELSE [k \in 1 .. ChunkLen(c) |-> Unknown]

\* bytes concatenation
RECURSIVE FlatBytes(_)
FlatBytes(parts) ==
    IF parts = <<>> THEN <<>> ELSE Head(parts) \o FlatBytes(Tail(parts))

\* struct's '!L' and '!H': big-endian
U32(x) == <<x \div 16777216, (x \div 65536) % 256, (x \div 256) % 256, x % 256>>
U16(x) == <<(x \div 256) % 256, x % 256>>

\* The bytes of one record as write_index lays them out
RecordBytes(r) ==
    FlatBytes([k \in 1 .. 10 |-> U32(r.fields[k])]
                \o [k \in 1 .. Len(r.sha1) |-> ChunkBytes(r.sha1[k])]
                \o <<U16(r.flags), ChunkBytes(r.path[1]), [k \in 1 .. 1 + r.pad |-> 0]>>)

\* data[12:] of a file with these records: the records and the checksum
EntryData(records) ==
    FlatBytes([k \in 1 .. Len(records) |-> RecordBytes(records[k])]
                \o <<[k \in 1 .. 20 |-> Unknown]>>)

\* The loop of read_index from offset i of entry_data, byte by byte, with
\* the entries read before it
RECURSIVE ReadBytes(_, _, _)
ReadBytes(entry_data, i, entries) ==
    IF ~(i + 62 <= Len(entry_data)) THEN [err |-> "", entries |-> entries]
    ELSE LET at(k) == entry_data[i + k + 1]
             L(k) == ((at(k) * 256 + at(k + 1)) * 256 + at(k + 2)) * 256 + at(k + 3)
             nuls == {j \in i + 62 .. Len(entry_data) - 1 : entry_data[j + 1] = 0}
             path_end == CHOOSE j \in nuls : \A j2 \in nuls : j <= j2
             path == Decode(SubSeq(entry_data, i + 62 + 1, path_end), 1, "", TRUE)
         IN  IF \E j \in i + 1 .. i + 62 : entry_data[j] = Unknown
             THEN [err |-> "Unmodelled", entries |-> <<>>]
             ELSE IF nuls = {} THEN [err |-> "ValueError", entries |-> <<>>]
             ELSE IF \E j \in i + 63 .. path_end : entry_data[j] = Unknown
                  THEN [err |-> "Unmodelled", entries |-> <<>>]
             ELSE IF path.err # "" THEN [err |-> path.err, entries |-> <<>>]
             ELSE ReadBytes(entry_data, i + EntryLen(Len(path.str)),
                            Append(entries,
                                   [ctime_s |-> L(0), ctime_n |-> L(4),
                                    mtime_s |-> L(8), mtime_n |-> L(12),
                                    dev |-> L(16), ino |-> L(20),
                                    mode |-> L(24), uid |-> L(28),
                                    gid |-> L(32), size |-> L(36),
                                    sha1 |-> Sha1Field(SubSeq(entry_data, i + 41, i + 60)),
                                    flags |-> at(60) * 256 + at(61),
                                    path |-> path.str]))

\* read_index(repo_path): the list of entries, or the error raised.  While
\* the reader's steps land on the records' starts the entries are taken
\* from the records; from the first step that does not, from the bytes.
RECURSIVE ReadEntries(_, _)
ReadEntries(records, entries) ==
    IF records = <<>> THEN [err |-> "", entries |-> entries]
    ELSE LET r == Head(records)
             path == r.path[1].utf8
             entry == [ctime_s |-> r.fields[1], ctime_n |-> r.fields[2],
                       mtime_s |-> r.fields[3], mtime_n |-> r.fields[4],
                       dev |-> r.fields[5], ino |-> r.fields[6],
                       mode |-> r.fields[7], uid |-> r.fields[8],
                       gid |-> r.fields[9], size |-> r.fields[10],
                       sha1 |-> r.sha1, flags |-> r.flags, path |-> path]
             written == 62 + r.path[1].n + 1 + r.pad
         IN  IF EntryLen(Len(path)) = written
             THEN ReadEntries(Tail(records), Append(entries, entry))
             ELSE ReadBytes(EntryData(records), EntryLen(Len(path)),
                            Append(entries, entry))

read_index(idx) ==
    IF idx = <<>> THEN [err |-> "", entries |-> <<>>]
    ELSE LET data == idx[1].data
         IN  IF data.signature # "DIRC" \/ data.version # 2
             THEN [err |-> "ValueError", entries |-> <<>>]
             ELSE ReadEntries(data.records, <<>>)

\* entries[path] = entry on a dict: replace in place, or append
RECURSIVE Upsert(_, _)
Upsert(entries, e) ==
    IF entries = <<>> THEN <<e>>
    ELSE IF Head(entries).path = e.path THEN <<e>> \o Tail(entries)
    ELSE <<Head(entries)>> \o Upsert(Tail(entries), e)

RECURSIVE DictOf(_, _)
DictOf(acc, list) ==
    IF list = <<>> THEN acc ELSE DictOf(Upsert(acc, Head(list)), Tail(list))

\* The loop of add_to_index over paths, in the working tree wt; stops at the
\* first file that cannot be opened.
RECURSIVE AddLoop(_, _, _, _)
AddLoop(fs, entries, paths, wt) ==
    IF paths = <<>> THEN [err |-> "", fs |-> fs, entries |-> entries]
    ELSE LET path == Head(paths)
             data == wt[path]
         IN  IF data = Missing
             THEN [err |-> "FileNotFoundError", fs |-> fs, entries |-> entries]
             ELSE LET st == store_object(fs, data, "blob")
                      stat_info == Stat(path, data)
                      entry == [ctime_s |-> Mask32(stat_info.st_ctime), ctime_n |-> 0,
                                mtime_s |-> Mask32(stat_info.st_mtime), mtime_n |-> 0,
                                dev |-> Mask32(stat_info.st_dev),
                                ino |-> Mask32(stat_info.st_ino),
                                mode |-> Mask32(stat_info.st_mode),
                                uid |-> Mask32(stat_info.st_uid),
                                gid |-> Mask32(stat_info.st_gid),
                                size |-> Mask32(stat_info.st_size),
                                sha1 |-> st.hash, flags |-> 0, path |-> path]
                  IN  AddLoop([objects |-> st.objects, writes |-> st.writes],
                              Upsert(entries, entry), Tail(paths), wt)

\* A faulty variant of add_to_index that writes the index after every path,
\* so that a failure leaves the entries of the paths before it in the file.
add_to_index_eager(fs, idx, paths, wt) ==
    LET rd == read_index(idx)
        loop == AddLoop(fs, DictOf(<<>>, rd.entries), paths, wt)
    IN  IF rd.err # "" THEN [err |-> rd.err, fs |-> fs, index |-> idx]
        ELSE [err |-> loop.err, fs |-> loop.fs,
              index |-> IF loop.entries = <<>> THEN idx
                        ELSE <<write_index(loop.entries)>>]

\* add_to_index(paths, repo_path): the object directory and index file
\* afterwards, and what was printed or raised
add_to_index(fs, idx, paths, wt) ==
    LET rd == read_index(idx)
        loop == AddLoop(fs, DictOf(<<>>, rd.entries), paths, wt)
    IN  IF rd.err # "" THEN [err |-> rd.err, fs |-> fs, index |-> idx]
        ELSE IF loop.err # "" THEN [err |-> loop.err, fs |-> loop.fs, index |-> idx]
        ELSE [err |-> "", fs |-> loop.fs, index |-> <<write_index(loop.entries)>>]

\* f'{n:o}': the octal digits of n, kept as the number they are the digits of
Oct(n) == [oct |-> n]

\* list_index(repo_path): the printed lines
list_index(idx) ==
    LET rd == read_index(idx)
    IN  [i \in 1 .. Len(rd.entries) |->
            <<Oct(rd.entries[i].mode), SP>> \o Hexlify(rd.entries[i].sha1)
               \o <<SP, Txt(rd.entries[i].path)>>]

-----------------------------------------------------------------------------
(* commit_manager.py *)

\* write_tree(repo_path): the tree's bytes, built from the index as read
TreeData(entries) ==
    Concat([i \in 1 .. Len(entries) |->
              <<Oct(entries[i].mode), SP,
                [utf8 |-> entries[i].path, n |-> Len(StrBytes(entries[i].path))]>>
                 \o <<NUL>> \o entries[i].sha1])

write_tree(fs, idx) ==
    LET rd == read_index(idx)
    IN  IF rd.err # "" THEN [err |-> rd.err, hash |-> None,
                             objects |-> fs.objects, writes |-> fs.writes]
        ELSE LET st == store_object(fs, TreeData(rd.entries), "tree")
             IN  [err |-> "", hash |-> st.hash,
                  objects |-> st.objects, writes |-> st.writes]

\* str.strip()
RECURSIVE LStrip(_)
LStrip(s) ==
    IF s # <<>> /\ Head(s) \in {SP, TAB, NL} THEN LStrip(Tail(s)) ELSE s

RECURSIVE RStrip(_)
RStrip(s) ==
    IF s # <<>> /\ s[Len(s)] \in {SP, TAB, NL}
    THEN RStrip(SubSeq(s, 1, Len(s) - 1)) ELSE s

Strip(s) == RStrip(LStrip(s))

\* A faulty variant of get_latest_commit that never finds the ref file.
get_latest_commit_none(ref) == None

\* get_latest_commit(repo_path)
get_latest_commit(ref) ==
    IF ref = <<>> THEN None ELSE Strip(ref[1])

\* A faulty variant of update_ref that writes the abbreviated hash it prints.
update_ref_short(commit_hash) ==
    <<(<<[hex |-> commit_hash[1].hex, n |-> 7]>> \o <<NL>>)>>

\* update_ref(commit_hash, repo_path): the content written to the ref file
update_ref(commit_hash) == <<(commit_hash \o <<NL>>)>>

\* Python truthiness of an optional string
Truthy(s) == s # None /\ s # <<>>

Abs(x) == IF x < 0 THEN -x ELSE x

\* A faulty variant of CommitData that reads the clock again for the
\* committer line, one second after the reading it was given.
CommitData_clock(tree_hash, parent_commit, author, message, timestamp, utc_offset) ==
    LET time_at(t) ==
            <<Num(t), SP, Txt(IF utc_offset > 0 THEN "+" ELSE "-"),
              [pad2 |-> Abs(utc_offset) \div 3600],
              [pad2 |-> (Abs(utc_offset) \div 60) % 60]>>
        commit_lines ==
            << <<Txt("tree"), SP>> \o tree_hash,
               IF Truthy(parent_commit) THEN <<Txt("parent"), SP>> \o parent_commit
                                        ELSE <<>>,
               <<Txt("author"), SP>> \o author \o <<SP>> \o time_at(timestamp),
               <<Txt("committer"), SP>> \o author \o <<SP>> \o time_at(timestamp + 1),
               <<>>,
               message,
               <<>> >>
    IN  Join(commit_lines, NL)

\* The commit body create_commit builds
CommitData(tree_hash, parent_commit, author, message, timestamp, utc_offset) ==
    LET author_time ==
            <<Num(timestamp), SP, Txt(IF utc_offset > 0 THEN "+" ELSE "-"),
              [pad2 |-> Abs(utc_offset) \div 3600],
              [pad2 |-> (Abs(utc_offset) \div 60) % 60]>>
        commit_lines ==
            << <<Txt("tree"), SP>> \o tree_hash,
               IF Truthy(parent_commit) THEN <<Txt("parent"), SP>> \o parent_commit
                                        ELSE <<>>,
               <<Txt("author"), SP>> \o author \o <<SP>> \o author_time,
               <<Txt("committer"), SP>> \o author \o <<SP>> \o author_time,
               <<>>,
               message,
               <<>> >>
    IN  Join(commit_lines, NL)

\* str.splitlines()
SplitLines(s) ==
    LET p == SplitOn(s, NL)
    IN  IF p[Len(p)] = <<>> THEN SubSeq(p, 1, Len(p) - 1) ELSE p

\* line.startswith(word + ' ')
StartsWith(line, word) == Len(line) >= 2 /\ line[1] = Txt(word) /\ line[2] = SP

\* s[:n] on chunks: the longest run of leading chunks of at most n bytes
RECURSIVE TakeBytes(_, _)
TakeBytes(s, n) ==
    IF s = <<>> \/ ChunkLen(Head(s)) > n THEN <<>>
    ELSE <<Head(s)>> \o TakeBytes(Tail(s), n - ChunkLen(Head(s)))

SetOk(S) == [err |-> "", set |-> S]
SetErr(e) == [err |-> e, set |-> {}]

\* find_tree_objects(tree_sha1, repo_path): the set returned, or the error
\* raised.  The loop over the tree's records is TreeLoop.
RECURSIVE find_tree_objects(_, _)
RECURSIVE TreeLoop(_, _, _, _)
TreeLoop(objs, tree_data, i, acc) ==
    IF ~(i <= Len(tree_data)) THEN SetOk(acc)
    ELSE LET mode_end == Find(tree_data, SP, i)
             nul == Find(tree_data, NUL, mode_end)
             sha_start == nul + 1
             sha1 == TakeBytes(SubSeq(tree_data, sha_start, Len(tree_data)), 20)
             sha1_hex == Hexlify(sha1)
             obj == retrieve_object(objs, sha1_hex)
             sub == find_tree_objects(objs, sha1_hex)
         IN  IF mode_end = 0 \/ nul = 0 \/ sha1 = <<>> THEN SetErr("ValueError")
             ELSE IF obj.err # "" THEN SetErr(obj.err)
             ELSE IF obj.type = "tree"
                  THEN IF sub.err # "" THEN sub
                       ELSE TreeLoop(objs, tree_data, sha_start + Len(sha1),
                                     acc \cup {sha1_hex} \cup sub.set)
                  ELSE TreeLoop(objs, tree_data, sha_start + Len(sha1),
                                acc \cup {sha1_hex})

find_tree_objects(objs, tree_sha1) ==
    LET obj == retrieve_object(objs, tree_sha1)
    IN  IF obj.err # "" THEN SetErr(obj.err)
        ELSE TreeLoop(objs, obj.data, 1, {tree_sha1})

\* find_commit_objects(commit_sha1, repo_path): the set returned, or the
\* error raised.  The loop over the parent lines is ParentLoop.
RECURSIVE find_commit_objects(_, _)
RECURSIVE ParentLoop(_, _, _)
ParentLoop(objs, parent_hashes, acc) ==
    IF parent_hashes = <<>> THEN SetOk(acc)
    ELSE LET sub == find_commit_objects(objs, Head(parent_hashes))
         IN  IF sub.err # "" THEN sub
             ELSE ParentLoop(objs, Tail(parent_hashes), acc \cup sub.set)

\* A faulty variant of find_commit_objects that does not look at the kind
\* of the object it was given.
find_commit_objects_anykind(objs, commit_sha1) ==
    LET obj == retrieve_object(objs, commit_sha1)
        lines == SplitLines(obj.data)
        trees == SelectSeq(lines, LAMBDA l : StartsWith(l, "tree"))
        tree_hash == TakeBytes(SubSeq(trees[1], 3, Len(trees[1])), 40)
        tree == find_tree_objects(objs, tree_hash)
        parents == SelectSeq(lines, LAMBDA l : StartsWith(l, "parent"))
        parent_hashes == [i \in 1 .. Len(parents) |->
                             TakeBytes(SubSeq(parents[i], 3, Len(parents[i])), 40)]
    IN  IF obj.err # "" THEN SetErr(obj.err)
        ELSE IF trees = <<>> THEN SetErr("StopIteration")
        ELSE IF tree.err # "" THEN tree
        ELSE ParentLoop(objs, parent_hashes, {commit_sha1} \cup tree.set)

find_commit_objects(objs, commit_sha1) ==
    LET obj == retrieve_object(objs, commit_sha1)
        lines == SplitLines(obj.data)
        trees == SelectSeq(lines, LAMBDA l : StartsWith(l, "tree"))
        tree_hash == TakeBytes(SubSeq(trees[1], 3, Len(trees[1])), 40)
        tree == find_tree_objects(objs, tree_hash)
        parents == SelectSeq(lines, LAMBDA l : StartsWith(l, "parent"))
        parent_hashes == [i \in 1 .. Len(parents) |->
                             TakeBytes(SubSeq(parents[i], 3, Len(parents[i])), 40)]
    IN  IF obj.err # "" THEN SetErr(obj.err)
        ELSE IF obj.type # "commit" THEN SetErr("AssertionError")
        ELSE IF trees = <<>> THEN SetErr("StopIteration")
        ELSE IF tree.err # "" THEN tree
        ELSE ParentLoop(objs, parent_hashes, {commit_sha1} \cup tree.set)

-----------------------------------------------------------------------------
(* remote_manager.py *)

MasterRef == Txt("refs/heads/master")
Zero40 == <<Txt("0000000000000000000000000000000000000000")>>

\* line.startswith(b"00"): a length prefix below 0x0100, or the all-zero hash
StartsWith00(line) ==
    /\ line # <<>>
    /\ \/ "len4" \in DOMAIN line[1] /\ line[1].len4 < 256
       \/ line[1] = Zero40[1]

\* get_remote_master_hash, from the body of the GET response on
GetRemoteMasterHash(lines) ==
    LET hits == SelectSeq(lines, LAMBDA l : ~StartsWith00(l) /\ Find(l, MasterRef, 1) # 0)
    IN  IF hits = <<>> THEN None ELSE SplitWs(hits[1])[1]

get_remote_master_hash(response) == GetRemoteMasterHash(SplitOn(response, NL))

\* A faulty variant of find_missing_objects that takes a repository without
\* a local commit to have no objects to send.
find_missing_objects_empty(objs, local_sha1, remote_sha1) ==
    LET local_objects == IF local_sha1 = None THEN SetOk({})
                         ELSE find_commit_objects(objs, local_sha1)
        remote_objects == find_commit_objects(objs, remote_sha1)
    IN  IF local_objects.err # "" THEN local_objects
        ELSE IF Truthy(remote_sha1)
             THEN IF remote_objects.err # "" THEN remote_objects
                  ELSE SetOk(local_objects.set \ remote_objects.set)
        ELSE local_objects

\* find_missing_objects(local_sha1, remote_sha1, repo_path)
find_missing_objects(objs, local_sha1, remote_sha1) ==
    LET local_objects == find_commit_objects(objs, local_sha1)
        remote_objects == find_commit_objects(objs, remote_sha1)
    IN  IF local_objects.err # "" THEN local_objects
        ELSE IF Truthy(remote_sha1)
             THEN IF remote_objects.err # "" THEN remote_objects
                  ELSE SetOk(local_objects.set \ remote_objects.set)
        ELSE local_objects

\* remote_manager's own retrieve_object(sha1_hash, repo_path)
retrieve_object_rm(objs, sha1_hash) ==
    IF sha1_hash = None THEN Raise("TypeError")
    ELSE IF ~ObjectExists(objs, sha1_hash) THEN Raise("FileNotFoundError")
    ELSE LET decompressed_data == zlib_decompress(objs[sha1_hash])
             nul == Find(decompressed_data, NUL, 1)
             header == SubSeq(decompressed_data, 1, nul - 1)
             data == SubSeq(decompressed_data, nul + 1, Len(decompressed_data))
         IN  IF nul = 0 THEN Raise("ValueError")
             ELSE Ok(SplitWs(header)[1][1].txt, data)

TypeNum(obj_type) ==
    IF obj_type = "commit" THEN 1 ELSE IF obj_type = "tree" THEN 2 ELSE 3

\* The header bytes of pack_object, for a content of `size` bytes
RECURSIVE SizeBytes(_)
SizeBytes(size) ==
    IF size = 0 THEN <<>>
    ELSE <<B((size % 128) + 128)>> \o SizeBytes(size \div 128)

PackHeader(type_num, size) ==
    <<B(type_num * 16 + (size % 16))>> \o SizeBytes(size \div 16)

\* pack_object(obj_type, data)
pack_object(obj_type, data) ==
    PackHeader(TypeNum(obj_type), ByteLen(data)) \o <<zlib_compress(data)>>

\* sorted(objects): the order of SHA-1 values is fixed but not known to the
\* model; one fixed order is chosen.
RECURSIVE Sorted(_)
Sorted(S) ==
    IF S = {} THEN <<>>
    ELSE LET x == CHOOSE y \in S : TRUE IN <<x>> \o Sorted(S \ {x})

\* A faulty variant of PackLoop that leaves out the objects it cannot open
\* and returns the pack of the others.
RECURSIVE PackLoop_skip(_, _, _)
PackLoop_skip(objs, hashes, body) ==
    IF hashes = <<>> THEN [err |-> "", data |-> body]
    ELSE LET obj == retrieve_object_rm(objs, Head(hashes))
         IN  IF obj.err # "" THEN PackLoop_skip(objs, Tail(hashes), body)
             ELSE PackLoop_skip(objs, Tail(hashes),
                                body \o pack_object(obj.type, obj.data))

\* The loop of create_pack over the sorted hashes
RECURSIVE PackLoop(_, _, _)
PackLoop(objs, hashes, body) ==
    IF hashes = <<>> THEN [err |-> "", data |-> body]
    ELSE LET obj == retrieve_object_rm(objs, Head(hashes))
         IN  IF obj.err # "" THEN [err |-> obj.err, data |-> <<>>]
             ELSE PackLoop(objs, Tail(hashes), body \o pack_object(obj.type, obj.data))

\* create_pack(objects, repo_path)
create_pack(objs, S) ==
    LET header == <<[struct |-> <<"PACK", 2, Cardinality(S)>>]>>
        body == PackLoop(objs, Sorted(S), <<>>)
        full_data == header \o body.data
    IN  IF body.err # "" THEN body
        ELSE [err |-> "", data |-> full_data \o <<[raw |-> Sha1(full_data)]>>]

\* build_pkt_line_data(lines)
build_pkt_line_data(lines) ==
    Concat([i \in 1 .. Len(lines) |->
              <<[len4 |-> ByteLen(lines[i]) + 4]>> \o lines[i]])
      \o <<[len4 |-> 0]>>

\* f"{x}" of an optional string
Fmt(x) == IF x = None THEN <<Txt("None")>> ELSE x

\* The negotiation line push builds
NegotiationLine(remote_sha1, local_sha1) ==
    (IF Truthy(remote_sha1) THEN remote_sha1 ELSE Zero40)
      \o <<SP>> \o Fmt(local_sha1) \o <<SP, MasterRef, NUL, Txt("report-status")>>

\* A faulty variant of HasUnpackOk that looks for the word 'ok' alone.
RECURSIVE HasOk(_)
HasOk(response) ==
    /\ Len(response) >= 1
    /\ \/ response[1] = Txt("ok")
       \/ HasOk(Tail(response))

\* b'unpack ok' in response
RECURSIVE HasUnpackOk(_)
HasUnpackOk(response) ==
    /\ Len(response) >= 3
    /\ \/ SubSeq(response, 1, 3) = <<Txt("unpack"), SP, Txt("ok")>>
       \/ HasUnpackOk(Tail(response))


-----------------------------------------------------------------------------
(* The state machine: one command of git_clone.py at a time *)

Kinds == {"blob", "tree", "commit"}

LocInit ==
    [message |-> <<>>, author |-> <<>>, timestamp |-> 0, utc_offset |-> 0,
     tree_hash |-> None, parent_commit |-> None, commit_hash |-> None,
     local_sha1 |-> None, remote_sha1 |-> None, missing_objects |-> {},
     data |-> <<>>, response |-> <<>>, paths |-> <<>>, advert |-> <<>>]

OutInit == [cmd |-> "", err |-> "", printed |-> <<>>, ret |-> None]

\* The repository right after create_repo: empty object directory, no index
\* file, no ref file.
Init ==
    /\ objects = <<>>
    /\ writes = <<>>
    /\ index = <<>>
    /\ master = <<>>
    /\ pc = "idle"
    /\ loc = LocInit
    /\ net = <<>>
    /\ out = OutInit

Fs == [objects |-> objects, writes |-> writes]

\* The path lists of one add
PathListsOf(P) == UNION {[1 .. n -> P] : n \in 1 .. MaxPaths}
PathLists == PathListsOf(Paths)

\* What add may find at the paths it is given
WorkTrees(paths) == [Range(paths) -> FileContents \cup {Missing}]

\* git_clone.py add, with one of the given path lists
AddFrom(lists) ==
    /\ pc = "idle"
    /\ \E paths \in lists : \E wt \in WorkTrees(paths) :
          LET r == add_to_index(Fs, index, paths, wt)
          IN  /\ objects' = r.fs.objects
              /\ writes' = r.fs.writes
              /\ index' = r.index
              /\ out' = [OutInit EXCEPT !.cmd = "add", !.err = r.err]
              /\ loc' = [LocInit EXCEPT !.paths = paths]
    /\ pc' = "done"
    /\ UNCHANGED <<master, net>>

Add == AddFrom(PathLists)

\* git_clone.py status
Status ==
    /\ pc = "idle"
    /\ out' = [OutInit EXCEPT !.cmd = "status", !.err = read_index(index).err,
                              !.printed = list_index(index)]
    /\ pc' = "done"
    /\ UNCHANGED <<objects, writes, index, master, loc, net>>

Messages == {<<Txt("m0")>>}
Authors == {<<Txt("A")>>}
Clock == {1700000100}
UtcOffsets == {0}

CommitObjects(objs) ==
    {h \in DOMAIN objs : retrieve_object(objs, h).type = "commit"}

\* create_commit, line 42: tree_hash = write_tree(repo_path)
CommitTree ==
    /\ pc = "idle"
    /\ Cardinality(CommitObjects(objects)) < MaxCommits
    /\ \E message \in Messages, author \in Authors,
          timestamp \in Clock, utc_offset \in UtcOffsets :
          LET t == write_tree(Fs, index)
          IN  /\ objects' = t.objects
              /\ writes' = t.writes
              /\ loc' = [LocInit EXCEPT !.message = message, !.author = author,
                                        !.timestamp = timestamp,
                                        !.utc_offset = utc_offset,
                                        !.tree_hash = t.hash]
              /\ IF t.err # ""
                 THEN /\ pc' = "done"
                      /\ out' = [OutInit EXCEPT !.cmd = "commit", !.err = t.err]
                 ELSE /\ pc' = "c_tree"
                      /\ out' = out
    /\ UNCHANGED <<index, master, net>>

\* create_commit, lines 43-65: read the ref, build and store the commit
CommitStore ==
    /\ pc = "c_tree"
    /\ LET parent_commit == get_latest_commit(master)
           commit_data == CommitData(loc.tree_hash, parent_commit, loc.author,
                                     loc.message, loc.timestamp, loc.utc_offset)
           st == store_object(Fs, commit_data, "commit")
       IN  /\ objects' = st.objects
           /\ writes' = st.writes
           /\ loc' = [loc EXCEPT !.parent_commit = parent_commit,
                                 !.commit_hash = st.hash]
    /\ pc' = "c_stored"
    /\ UNCHANGED <<index, master, net, out>>

\* create_commit, lines 67-69: update_ref, print, return
CommitRef ==
    /\ pc = "c_stored"
    /\ master' = update_ref(loc.commit_hash)
    /\ out' = [OutInit EXCEPT !.cmd = "commit", !.ret = loc.commit_hash]
    /\ pc' = "done"
    /\ UNCHANGED <<objects, writes, index, loc, net>>

\* The process ends: its locals, its output and its connections are gone.
Exit ==
    /\ pc = "done"
    /\ pc' = "idle"
    /\ loc' = LocInit
    /\ net' = <<>>
    /\ out' = OutInit
    /\ UNCHANGED <<objects, writes, index, master>>

\* A commit of some other clone, which this repository does not hold
ForeignHash == HexDigest(Sha1(<<Txt("elsewhere")>>))

ServiceLine == <<[len4 |-> 31], Txt("#"), SP, Txt("service=git-receive-pack")>>

\* The bodies the ref-advertisement endpoint may answer with: no master
\* branch; master in the plain "hash<TAB>ref" form; master in the
\* length-prefixed form of the receive-pack service.
Adverts(hashes) ==
    {ServiceLine \o <<NL, [len4 |-> 0], [len4 |-> 0]>>}
      \cup {h \o <<TAB, MasterRef, NL>> : h \in hashes}
      \cup {ServiceLine \o <<NL, [len4 |-> 0], [len4 |-> 63]>> \o h
               \o <<SP, MasterRef, NUL, Txt("report-status"), NL, [len4 |-> 0]>>
            : h \in hashes}

\* The bodies the receive endpoint may answer with
Responses ==
    {<<[len4 |-> 14], Txt("unpack"), SP, Txt("ok"), NL,
       [len4 |-> 25], Txt("ok"), SP, MasterRef, NL, [len4 |-> 0]>>,
     <<[len4 |-> 14], Txt("unpack"), SP, Txt("ok"), NL,
       [len4 |-> 25], Txt("ng"), SP, MasterRef, SP, Txt("rejected"), NL, [len4 |-> 0]>>,
     <<[len4 |-> 17], Txt("unpack"), SP, Txt("error"), NL,
       [len4 |-> 25], Txt("ng"), SP, MasterRef, SP, Txt("rejected"), NL, [len4 |-> 0]>>,
     <<Txt("ok"), SP, Txt("unpack")>>,
     <<>>}

Request(method, url, data) == [method |-> method, url |-> url, data |-> data]

\* push, line 156: local_sha1 = get_latest_commit(repo_path)
PushRef ==
    /\ pc = "idle"
    /\ loc' = [LocInit EXCEPT !.local_sha1 = get_latest_commit(master)]
    /\ pc' = "p_discover"
    /\ UNCHANGED <<objects, writes, index, master, net, out>>

\* push, line 157: the GET of get_remote_master_hash answers
PushDiscover ==
    /\ pc = "p_discover"
    /\ net' = Append(net, Request("GET", "info/refs?service=git-receive-pack", <<>>))
    /\ \E response \in Adverts(CommitObjects(objects) \cup {ForeignHash}) :
          /\ loc' = [loc EXCEPT !.advert = response,
                                !.remote_sha1 = get_remote_master_hash(response)]
          /\ pc' = "p_diff"
          /\ out' = out
    /\ UNCHANGED <<objects, writes, index, master>>

\* push, line 157: the GET fails (urllib raises)
PushDiscoverFails ==
    /\ pc = "p_discover"
    /\ net' = Append(net, Request("GET", "info/refs?service=git-receive-pack", <<>>))
    /\ out' = [OutInit EXCEPT !.cmd = "push", !.err = "URLError"]
    /\ pc' = "done"
    /\ UNCHANGED <<objects, writes, index, master, loc>>

\* push, line 158: missing_objects = find_missing_objects(...)
PushDiff ==
    /\ pc = "p_diff"
    /\ LET m == find_missing_objects(objects, loc.local_sha1, loc.remote_sha1)
       IN  IF m.err # ""
           THEN /\ out' = [OutInit EXCEPT !.cmd = "push", !.err = m.err]
                /\ pc' = "done"
                /\ loc' = loc
           ELSE /\ loc' = [loc EXCEPT !.missing_objects = m.set]
                /\ pc' = "p_encode"
                /\ out' = out
    /\ UNCHANGED <<objects, writes, index, master, net>>

\* push, lines 160-164: the pack, the negotiation line, the payload
PushEncode ==
    /\ pc = "p_encode"
    /\ LET pack_data == create_pack(objects, loc.missing_objects)
           lines == <<NegotiationLine(loc.remote_sha1, loc.local_sha1)>>
       IN  IF pack_data.err # ""
           THEN /\ out' = [OutInit EXCEPT !.cmd = "push", !.err = pack_data.err]
                /\ pc' = "done"
                /\ loc' = loc
           ELSE /\ loc' = [loc EXCEPT !.data = build_pkt_line_data(lines) \o pack_data.data]
                /\ pc' = "p_transmit"
                /\ out' = out
    /\ UNCHANGED <<objects, writes, index, master, net>>

\* push, line 167: the POST answers
PushTransmit ==
    /\ pc = "p_transmit"
    /\ net' = Append(net, Request("POST", "git-receive-pack", loc.data))
    /\ \E response \in Responses : loc' = [loc EXCEPT !.response = response]
    /\ pc' = "p_interpret"
    /\ UNCHANGED <<objects, writes, index, master, out>>

\* A faulty variant of PushTransmitFails that tries the POST a second time.
PushTransmitFails_retry ==
    /\ pc = "p_transmit"
    /\ net' = net \o <<Request("POST", "git-receive-pack", loc.data),
                       Request("POST", "git-receive-pack", loc.data)>>
    /\ out' = [OutInit EXCEPT !.cmd = "push", !.err = "URLError"]
    /\ pc' = "done"
    /\ UNCHANGED <<objects, writes, index, master, loc>>

\* push, line 167: the POST fails (urllib raises)
PushTransmitFails ==
    /\ pc = "p_transmit"
    /\ net' = Append(net, Request("POST", "git-receive-pack", loc.data))
    /\ out' = [OutInit EXCEPT !.cmd = "push", !.err = "URLError"]
    /\ pc' = "done"
    /\ UNCHANGED <<objects, writes, index, master, loc>>

\* A faulty variant of PushInterpret that rolls the ref back when the
\* remote did not accept the push.
PushInterpret_rollback ==
    /\ pc = "p_interpret"
    /\ out' = [OutInit EXCEPT !.cmd = "push",
                 !.printed = IF HasUnpackOk(loc.response)
                             THEN <<(<<Txt("Push successful")>>)>>
                             ELSE <<(<<Txt("Push failed")>>)>>]
    /\ master' = IF HasUnpackOk(loc.response) THEN master ELSE <<>>
    /\ pc' = "done"
    /\ UNCHANGED <<objects, writes, index, loc, net>>

\* push, lines 169-172
PushInterpret ==
    /\ pc = "p_interpret"
    /\ out' = [OutInit EXCEPT !.cmd = "push",
                 !.printed = IF HasUnpackOk(loc.response)
                             THEN <<(<<Txt("Push successful")>>)>>
                             ELSE <<(<<Txt("Push failed")>>)>>]
    /\ pc' = "done"
    /\ UNCHANGED <<objects, writes, index, master, loc, net>>

Next ==
    \/ Add
    \/ Status
    \/ CommitTree
    \/ CommitStore
    \/ CommitRef
    \/ PushRef
    \/ PushDiscover
    \/ PushDiscoverFails
    \/ PushDiff
    \/ PushEncode
    \/ PushTransmit
    \/ PushTransmitFails
    \/ PushInterpret
    \/ Exit

Spec == Init /\ [][Next]_vars

-----------------------------------------------------------------------------
(* The object store alone: store_object called with any kind and content *)

RawBytes == {NUL, SP}
RawContents == UNION {[1 .. n -> RawBytes] : n \in 0 .. MaxLen}

ObjStore ==
    /\ \E obj_type \in Kinds, data \in RawContents :
          LET st == store_object(Fs, data, obj_type)
          IN  /\ \/ Cardinality(DOMAIN objects) < MaxObjs
                 \/ st.hash \in DOMAIN objects
              /\ objects' = st.objects
              /\ writes' = st.writes
    /\ UNCHANGED <<index, master, pc, loc, net, out>>

ObjNext == ObjStore

ObjSpec == Init /\ [][ObjNext]_vars

-----------------------------------------------------------------------------
(* The index alone: write_index and read_index on entry sequences, and add  *)
(* on paths that have a character of more than one byte                     *)

MaxEntries == 2    \* longest entry sequence handed to write_index (IdxSpec)
MaxIndex == 2      \* most records in the index file when an add starts (IdxSpec)

IdxPaths == {"é", "b.txt"}

\* 20-byte hashes: twenty bytes 'a', and the same with FF as the 16th
IdxHashes ==
    {[k \in 1 .. 20 |-> 97], [k \in 1 .. 20 |-> IF k = 16 THEN 255 ELSE 97]}

\* Entries as add builds them, with a hash of 20 bytes
IdxEntries ==
    {[ctime_s |-> 1700000000, ctime_n |-> 0, mtime_s |-> 1700000001, mtime_n |-> 0,
      dev |-> 65024, ino |-> 12, mode |-> 33188, uid |-> 1000, gid |-> 100,
      size |-> 5, sha1 |-> <<[bytes |-> h]>>, flags |-> 0, path |-> p] :
        p \in IdxPaths \cup {"a.txt"}, h \in IdxHashes}

\* The entry sequences handed to write_index: no path twice
EntryLists ==
    {es \in UNION {[1 .. n -> IdxEntries] : n \in 0 .. MaxEntries} :
        \A i, j \in 1 .. Len(es) : es[i].path = es[j].path => i = j}

NumRecords(idx) == IF idx = <<>> THEN 0 ELSE idx[1].data.num_entries

\* write_index(entries, repo_path) in a fresh repository
IdxWrite ==
    /\ pc = "idle"
    /\ index = <<>>
    /\ \E entries \in EntryLists :
          /\ index' = <<write_index(entries)>>
          /\ out' = [OutInit EXCEPT !.cmd = "write_index", !.ret = entries]
    /\ pc' = "done"
    /\ UNCHANGED <<objects, writes, master, loc, net>>

\* git_clone.py add on these paths
IdxAdd ==
    /\ NumRecords(index) <= MaxIndex
    /\ AddFrom(PathListsOf(IdxPaths))

IdxNext ==
    \/ IdxWrite
    \/ IdxAdd
    \/ Exit

IdxSpec == Init /\ [][IdxNext]_vars

-----------------------------------------------------------------------------
(* add and commit on the paths of IdxPaths: the trees built from an index  *)
(* that add has written                                                    *)

TreeNext ==
    \/ IdxAdd
    \/ CommitTree
    \/ CommitStore
    \/ CommitRef
    \/ Exit

TreeSpec == Init /\ [][TreeNext]_vars

-----------------------------------------------------------------------------
(* The object graph alone: an object directory that holds any objects, as   *)
(* one cloned, copied or written by another client does, and on it the      *)
(* traversal and the Encode and Transmit steps of push                      *)

MaxGraph == 2      \* most objects in the directory of GraphSpec

\* A commit body without a tree line
NoTreeBody(parent_commit) ==
    Join(<< IF Truthy(parent_commit) THEN <<Txt("parent"), SP>> \o parent_commit
                                     ELSE <<>>,
            <<Txt("author"), SP, Txt("A"), SP, Num(1700000100), SP, Txt("-"),
              [pad2 |-> 0], [pad2 |-> 0]>>,
            <<>>,
            <<Txt("m0")>>,
            <<>> >>, NL)

\* The contents stored: nothing, bodies in the form create_commit writes
\* (naming as tree and as parent any object of the directory, or one that
\* is not there), and bodies that lack the tree line
GraphBodies(objs) ==
    {<<>>}
      \cup {CommitData(t, p, <<Txt("A")>>, <<Txt("m0")>>, 1700000100, 0) :
               t \in DOMAIN objs \cup {ForeignHash}, p \in DOMAIN objs \cup {None}}
      \cup {NoTreeBody(p) : p \in DOMAIN objs \cup {None}}

\* The objects stored: commits with any of these contents, and blobs and
\* trees that are empty or are shaped like a commit
GraphObjects(objs) ==
    {<<"commit", b>> : b \in GraphBodies(objs)}
      \cup ({"blob", "tree"}
              \X {<<>>, CommitData(ForeignHash, None, <<Txt("A")>>, <<Txt("m0")>>,
                                   1700000100, 0)})

\* store_object with one of these objects
GraphStore ==
    /\ pc = "idle"
    /\ Cardinality(DOMAIN objects) < MaxGraph
    /\ \E o \in GraphObjects(objects) :
          LET obj_type == o[1]
              data == o[2]
              st == store_object(Fs, data, obj_type)
          IN  /\ objects' = st.objects
              /\ writes' = st.writes
    /\ UNCHANGED <<index, master, pc, loc, net, out>>

\* push after line 158: the GET has been answered and Diff has handed the
\* set S to Encode; S may name objects that are not (or no longer) in the
\* directory
GraphDiff ==
    /\ pc = "idle"
    /\ \E S \in SUBSET (DOMAIN objects \cup {ForeignHash}) : \E l \in S :
          loc' = [LocInit EXCEPT !.local_sha1 = l, !.missing_objects = S]
    /\ net' = <<Request("GET", "info/refs?service=git-receive-pack", <<>>)>>
    /\ pc' = "p_encode"
    /\ UNCHANGED <<objects, writes, index, master, out>>

GraphNext ==
    \/ GraphStore
    \/ GraphDiff
    \/ PushEncode
    \/ PushTransmit
    \/ PushTransmitFails
    \/ PushInterpret
    \/ Exit

GraphSpec == Init /\ [][GraphNext]_vars

-----------------------------------------------------------------------------
(* The object graph as the data model defines it, read off the stored      *)
(* bytes without the traversal code: a commit's header is the lines before *)
(* its first empty line; a tree is a run of "mode path NUL hash" records.  *)

RECURSIVE HeaderLines(_)
HeaderLines(lines) ==
    IF lines = <<>> \/ Head(lines) = <<>> THEN <<>>
    ELSE <<Head(lines)>> \o HeaderLines(Tail(lines))

BodyOf(objs, h) == zlib_decompress(objs[h])

\* The bytes after the first NUL of a stored object
ContentOf(objs, h) ==
    LET full == BodyOf(objs, h)
    IN  SubSeq(full, Find(full, NUL, 1) + 1, Len(full))

KindOf(objs, h) == BodyOf(objs, h)[1].txt

HeaderValues(objs, c, word) ==
    LET hs == SelectSeq(HeaderLines(SplitLines(ContentOf(objs, c))),
                        LAMBDA l : StartsWith(l, word))
    IN  [i \in 1 .. Len(hs) |-> SubSeq(hs[i], 3, Len(hs[i]))]

\* The hashes a tree's records name, as 40 hexadecimal digits each
RECURSIVE TreeRefs(_)
TreeRefs(tree_data) ==
    LET nul == Find(tree_data, NUL, 1)
        sha1 == TakeBytes(SubSeq(tree_data, nul + 1, Len(tree_data)), 20)
    IN  IF tree_data = <<>> \/ nul = 0 \/ sha1 = <<>> THEN {}
        ELSE {Hexlify(sha1)}
               \cup TreeRefs(SubSeq(tree_data, nul + 1 + Len(sha1), Len(tree_data)))

RECURSIVE TreeClosure(_, _)
TreeClosure(objs, t) ==
    {t} \cup
    (IF t \in DOMAIN objs /\ KindOf(objs, t) = "tree"
     THEN UNION {TreeClosure(objs, r) : r \in TreeRefs(ContentOf(objs, t))}
     ELSE {})

RECURSIVE Reach(_, _)
Reach(objs, c) ==
    {c} \cup
    (IF c \in DOMAIN objs /\ KindOf(objs, c) = "commit"
     THEN UNION {TreeClosure(objs, t) : t \in Range(HeaderValues(objs, c, "tree"))}
            \cup UNION {Reach(objs, q) : q \in Range(HeaderValues(objs, c, "parent"))}
     ELSE {})

\* The hash the ref file names
Tip == IF master = <<>> THEN None ELSE Strip(master[1])

IsKind(h, kind) == h \in DOMAIN objects /\ KindOf(objects, h) = kind

-----------------------------------------------------------------------------
(* Claims *)

\* C1: for every kind and every content (empty, with NUL bytes, with
\* blanks), in every state of the object store, storing the content and
\* retrieving the returned hash gives back exactly (kind, content).
C1_RoundTrip ==
    \A obj_type \in Kinds, data \in RawContents :
        LET st == store_object(Fs, data, obj_type)
        IN  retrieve_object(st.objects, st.hash) = Ok(obj_type, data)

\* An object with empty content and one whose content starts with a NUL
\* are in the store, and retrieving the second gives it back.
C1_Witness ==
    \E k1 \in Kinds, k2 \in Kinds :
        /\ compute_hash(<<>>, k1).sha1_hash \in DOMAIN objects
        /\ compute_hash(<<NUL, SP>>, k2).sha1_hash \in DOMAIN objects
        /\ retrieve_object(objects, compute_hash(<<NUL, SP>>, k2).sha1_hash)
             = Ok(k2, <<NUL, SP>>)

\* C2: storing the same (kind, content) twice returns the same hash, and
\* the second call changes nothing: no object file is written a second
\* time, and the store after the second call equals the store after the
\* first.
C2_Idempotent ==
    /\ \A h \in DOMAIN writes : writes[h] = 1
    /\ \A obj_type \in Kinds, data \in RawContents :
          LET s1 == store_object(Fs, data, obj_type)
              s2 == store_object([objects |-> s1.objects, writes |-> s1.writes],
                                 data, obj_type)
          IN  /\ s2.hash = s1.hash
              /\ s2.objects = s1.objects
              /\ s2.writes = s1.writes
              /\ s2.writes[s2.hash] = 1

\* Two objects are stored, each written once, and storing one of them again
\* from here returns its hash and leaves the store as it is.
C2_Witness ==
    /\ Cardinality(DOMAIN objects) = 2
    /\ \E obj_type \in Kinds, data \in RawContents :
          LET st == store_object(Fs, data, obj_type)
          IN  /\ st.hash \in DOMAIN objects
              /\ st.objects = objects
              /\ writes[st.hash] = 1

\* C3: every entry read back from the index file records the hash of a blob
\* that exists in the object store, and status prints exactly that hash.
C3_IndexNamesBlobs ==
    /\ \A e \in Range(read_index(index).entries) : IsKind(Hexlify(e.sha1), "blob")
    /\ (pc = "done" /\ out.cmd = "status") =>
          \A line \in Range(out.printed) : IsKind(SplitWs(line)[2], "blob")

\* C4: every tree object in the store references only hashes of objects
\* that are in the store.
C4_TreeRefsExist ==
    \A t \in DOMAIN objects :
        KindOf(objects, t) = "tree" =>
            TreeRefs(ContentOf(objects, t)) \subseteq DOMAIN objects

\* C5: for every commit C in the store, find_commit_objects(C) returns
\* exactly {C}, the closure of C's tree and what is reachable from C's
\* parent.
C5_TraversalComplete ==
    \A c \in CommitObjects(objects) :
        find_commit_objects(objects, c) = SetOk(Reach(objects, c))

\* C6: for every local commit and every remote tip (absent, or a commit of
\* the store), find_missing_objects returns exactly reachable(local) minus
\* reachable(remote), all of reachable(local) when the remote tip is absent.
C6_DiffCorrect ==
    \A l \in CommitObjects(objects), r \in CommitObjects(objects) \cup {None} :
        find_missing_objects(objects, l, r)
          = SetOk(Reach(objects, l) \ (IF r = None THEN {} ELSE Reach(objects, r)))

PushPcs == {"p_discover", "p_diff", "p_encode", "p_transmit", "p_interpret"}

\* The push that just ended got an answer to its GET
DiscoverAnswered == ~(Len(net) = 1 /\ out.err = "URLError")

\* C7: a push that found no master branch on the remote, from a repository
\* whose ref names a commit, has POSTed the negotiation line "0*40 <tip>
\* refs/heads/master\0report-status" followed by the pack of exactly the
\* objects reachable from the tip.
C7_PushCreatesBranch ==
    (/\ pc = "done" /\ out.cmd = "push"
     /\ DiscoverAnswered
     /\ loc.remote_sha1 = None
     /\ IsKind(loc.local_sha1, "commit"))
    => /\ Len(net) = 2
       /\ net[2].method = "POST"
       /\ net[2].data =
            <<[len4 |-> 4 + 40 + 1 + 40 + 1 + 17 + 1 + 13]>> \o Zero40 \o <<SP>>
              \o loc.local_sha1 \o <<SP, MasterRef, NUL, Txt("report-status")>>
              \o <<[len4 |-> 0]>>
              \o create_pack(objects, Reach(objects, loc.local_sha1)).data

PushSuccess == out.printed = <<(<<Txt("Push successful")>>)>>
PushFailure == out.printed = <<(<<Txt("Push failed")>>)>> \/ out.err # ""

ContainsUnpackOk(response) ==
    \E i \in 1 .. Len(response) - 2 :
        response[i] = Txt("unpack") /\ response[i + 1] = SP /\ response[i + 2] = Txt("ok")

\* C8: every push that ended is in exactly one of Success and Failure, and
\* a push whose POST was answered is in Success exactly when the answer
\* contains 'unpack ok'.
C8_InterpretIff ==
    (pc = "done" /\ out.cmd = "push") =>
        /\ PushSuccess # PushFailure
        /\ (out.err = "" => (PushSuccess <=> ContainsUnpackOk(loc.response)))

\* A push ended in Success on an answer that holds 'unpack ok' and then
\* rejects the ref.
C8_Witness ==
    /\ pc = "done" /\ out.cmd = "push" /\ PushSuccess
    /\ Len(net) = 2
    /\ Find(loc.response, Txt("ng"), 1) # 0

\* C9: the commit create_commit has just stored has no parent line in its
\* header when the ref was absent (the first commit), and otherwise exactly
\* one, naming the commit the ref held when create_commit started; no commit
\* in the store has more than one.
C9_ParentChain ==
    /\ \A c \in CommitObjects(objects) : Len(HeaderValues(objects, c, "parent")) <= 1
    /\ pc = "c_stored" =>
          /\ loc.commit_hash \in CommitObjects(objects)
          /\ HeaderValues(objects, loc.commit_hash, "parent")
               = (IF master = <<>> THEN <<>> ELSE <<Tip>>)
          /\ master = <<>> <=> Cardinality(CommitObjects(objects)) = 1
          /\ master # <<>> => Tip \in CommitObjects(objects) \ {loc.commit_hash}

\* The second commit is stored and its one parent line names the first
\* commit, which has none.
C9_Witness ==
    /\ pc = "c_stored"
    /\ master # <<>>
    /\ loc.commit_hash # Tip
    /\ HeaderValues(objects, loc.commit_hash, "parent") = <<Tip>>
    /\ HeaderValues(objects, Tip, "parent") = <<>>

\* C10: in every state the ref, when present, names a stored commit whose
\* tree is stored; inside create_commit the tree is stored before the
\* commit and the commit before the ref is overwritten; when create_commit
\* has returned h the ref names h, and push reads the ref's hash as its
\* local tip.
C10_RefAfterObjects ==
    /\ master # <<>> =>
          /\ IsKind(Tip, "commit")
          /\ \A t \in Range(HeaderValues(objects, Tip, "tree")) : IsKind(t, "tree")
    /\ pc = "c_tree" => IsKind(loc.tree_hash, "tree")
    /\ pc = "c_stored" =>
          /\ IsKind(loc.tree_hash, "tree")
          /\ IsKind(loc.commit_hash, "commit")
          /\ HeaderValues(objects, loc.commit_hash, "tree") = <<loc.tree_hash>>
          /\ Tip # loc.commit_hash
    /\ (pc = "done" /\ out.cmd = "commit" /\ out.err = "") =>
          /\ Tip = out.ret
          /\ master = <<(out.ret \o <<NL>>)>>
    /\ pc \in PushPcs => loc.local_sha1 = Tip

\* A push has read, as its local tip, the second commit of the repository.
C10_Witness ==
    /\ pc = "p_discover"
    /\ IsKind(loc.local_sha1, "commit")
    /\ Len(HeaderValues(objects, loc.local_sha1, "parent")) = 1

\* C15: no step of a push changes the object store, the index file or the
\* ref file, whatever the outcome of the push.
C15_PushFrame ==
    [][(pc \in PushPcs \/ pc' \in PushPcs)
          => UNCHANGED <<objects, writes, index, master>>]_vars

\* A push that the remote answered without 'unpack ok' has ended in
\* Failure, and the ref still names the commit create_commit stored.
C15_Witness ==
    /\ pc = "done" /\ out.cmd = "push" /\ PushFailure
    /\ Len(net) = 2
    /\ IsKind(Tip, "commit")
    /\ loc.local_sha1 = Tip

\* The entries read_index returns for the current index file
IndexEntries == read_index(index).entries

\* C19 as stated: after an add that failed, the index file is as it was
\* before the call and holds no entry for any path of that call.
C19_NoEntryOfCall ==
    [][(pc = "idle" /\ pc' = "done" /\ out'.cmd = "add" /\ out'.err # "")
          => /\ index' = index
             /\ \A e \in Range(read_index(index').entries) :
                    e.path \notin Range(loc'.paths)]_vars

\* C19, amended: an add that failed leaves the index file exactly as it was
\* before the call (no entry of that call is in it; an entry one of its
\* paths had before is still there, unchanged) and removes nothing from
\* the object store; an add that succeeded has written the index once,
\* with an entry for every path of the call.
C19_AddAtomic ==
    [][(pc = "idle" /\ pc' = "done" /\ out'.cmd = "add")
          => /\ \A h \in DOMAIN objects :
                    h \in DOMAIN objects' /\ objects'[h] = objects[h]
             /\ IF out'.err # ""
                THEN index' = index
                ELSE /\ index' # <<>>
                     /\ Range(loc'.paths)
                          \subseteq {e.path : e \in Range(read_index(index').entries)}]_vars

\* An add has failed on a later path after the blob of an earlier path was
\* stored: the blob is in the store and no index entry holds its hash.
C19_Witness ==
    /\ pc = "done" /\ out.cmd = "add" /\ out.err = "FileNotFoundError"
    /\ Len(loc.paths) >= 2
    /\ \E h \in DOMAIN objects :
          /\ IsKind(h, "blob")
          /\ \A e \in Range(IndexEntries) : e.sha1 # Pack20s(h)

\* C20: a push issues at most one GET and then at most one POST, the GET
\* first; the POST is issued only after Discover, Diff and Encode have
\* succeeded, and a push that failed in one of them has issued no POST.
C20_GetThenPost ==
    /\ Len(net) <= 2
    /\ Len(net) >= 1 => net[1].method = "GET"
    /\ Len(net) = 2 => net[2].method = "POST"
    /\ pc \in {"idle", "p_discover"} => net = <<>>
    /\ pc \in {"p_diff", "p_encode", "p_transmit"} => Len(net) = 1
    /\ pc = "p_interpret" => Len(net) = 2
    /\ (pc = "done" /\ out.cmd = "push") =>
          /\ Len(net) >= 1
          /\ out.err \notin {"", "URLError"} => Len(net) = 1
          /\ Len(net) = 2 => loc.data = net[2].data /\ loc.data # <<>>

\* A push has failed in Diff, after its GET, and has issued no POST.
C20_Witness ==
    /\ pc = "done" /\ out.cmd = "push"
    /\ out.err = "FileNotFoundError"
    /\ Len(net) = 1 /\ net[1].method = "GET"

\* The hash a ref advertisement records for refs/heads/master: the hash
\* that stands before the ref name in the record that names it; None when
\* no record names it.
AdvertisedMaster(advert) ==
    LET i == Find(advert, MasterRef, 1)
    IN  IF i < 3 THEN None ELSE <<advert[i - 2]>>

\* C16: when the GET of a push has been answered, the remote tip the push
\* works with is the hash the advertisement records for refs/heads/master,
\* and absent only when no record advertises refs/heads/master.
C16_DiscoverParses ==
    (pc \in {"p_diff", "p_encode", "p_transmit", "p_interpret"})
    => loc.remote_sha1 = AdvertisedMaster(loc.advert)

\* Decoding of a per-object pack header by the nibble-then-7-bit scheme:
\* the first byte holds the continuation bit, the kind number in bits 4-6
\* and the low four bits of the length; every following byte holds seven
\* more bits of the length and is read only when the byte before it has
\* the continuation bit (128) set.  DecodeRest reads the bytes from
\* position i on, the first of them weighing mult; ok is FALSE when the
\* decoder is led past the header bytes into the payload.
RECURSIVE DecodeRest(_, _, _)
DecodeRest(packed, i, mult) ==
    IF i > Len(packed) \/ "byte" \notin DOMAIN packed[i]
    THEN [ok |-> FALSE, size |-> 0, next |-> i]
    ELSE LET c == packed[i].byte
             rest == DecodeRest(packed, i + 1, mult * 128)
         IN  IF c >= 128
             THEN [ok |-> rest.ok, size |-> (c % 128) * mult + rest.size,
                   next |-> rest.next]
             ELSE [ok |-> TRUE, size |-> c * mult, next |-> i + 1]

DecodeHeader(packed) ==
    LET first == packed[1].byte
        rest == IF first >= 128 THEN DecodeRest(packed, 2, 16)
                ELSE [ok |-> TRUE, size |-> 0, next |-> 2]
    IN  [ok |-> rest.ok, kind |-> (first \div 16) % 8,
         size |-> (first % 16) + rest.size, next |-> rest.next]

\* The number of header bytes pack_object puts before the payload
HeaderLen(packed) == Len(packed) - 1

\* C17: for every object of the store, the header pack_object writes for
\* it has the continuation bit on a byte exactly when another header byte
\* follows, and decoding it gives back the kind number and the content
\* length and ends where the compressed payload starts.
C17_PackHeader ==
    \A h \in DOMAIN objects :
        LET o == retrieve_object_rm(objects, h)
            packed == pack_object(o.type, o.data)
        IN  /\ \A i \in 1 .. HeaderLen(packed) :
                  (packed[i].byte >= 128) <=> (i < HeaderLen(packed))
            /\ DecodeHeader(packed)
                  = [ok |-> TRUE, kind |-> TypeNum(o.type),
                     size |-> ByteLen(o.data), next |-> HeaderLen(packed) + 1]

\* What a run of create_commit yields as a function of its inputs alone:
\* the index file, the content of the ref file, author, message, clock
\* reading and timezone offset.
CommitOf(idx, ref, author, message, timestamp, utc_offset) ==
    LET tree == compute_hash(TreeData(read_index(idx).entries), "tree")
        parent == IF ref = <<>> THEN None ELSE Strip(ref[1])
        commit == compute_hash(
                      <<Txt("tree"), SP>> \o tree.sha1_hash \o <<NL>>
                        \o (IF parent = None THEN <<>>
                            ELSE <<Txt("parent"), SP>> \o parent) \o <<NL>>
                        \o <<Txt("author"), SP>> \o author
                        \o <<SP, Num(timestamp), SP, Txt(IF utc_offset > 0 THEN "+" ELSE "-"),
                             [pad2 |-> Abs(utc_offset) \div 3600],
                             [pad2 |-> (Abs(utc_offset) \div 60) % 60], NL>>
                        \o <<Txt("committer"), SP>> \o author
                        \o <<SP, Num(timestamp), SP, Txt(IF utc_offset > 0 THEN "+" ELSE "-"),
                             [pad2 |-> Abs(utc_offset) \div 3600],
                             [pad2 |-> (Abs(utc_offset) \div 60) % 60], NL>>
                        \o <<NL>> \o message \o <<NL>>,
                      "commit")
    IN  [tree |-> tree, commit |-> commit]

\* C18: what create_commit returns and leaves behind is a function of the
\* index, the ref it found, author, message, clock reading and timezone,
\* and of nothing else: it returns the hash CommitOf gives, leaves that
\* hash in the ref, adds to the object store it started from exactly the
\* tree and the commit CommitOf gives, and changes no object that was
\* there.  Two runs from the same inputs and store therefore agree.
C18_Deterministic ==
    [][/\ (pc = "idle" /\ pc' = "c_tree") =>
             LET f == CommitOf(index, master, loc'.author, loc'.message,
                               loc'.timestamp, loc'.utc_offset)
             IN  /\ loc'.tree_hash = f.tree.sha1_hash
                 /\ DOMAIN objects' = DOMAIN objects \cup {f.tree.sha1_hash}
                 /\ objects'[f.tree.sha1_hash] = zlib_compress(f.tree.full_data)
                 /\ \A h \in DOMAIN objects : objects'[h] = objects[h]
       /\ (pc = "c_tree" /\ pc' = "c_stored") =>
             LET f == CommitOf(index, master, loc.author, loc.message,
                               loc.timestamp, loc.utc_offset)
             IN  /\ loc'.commit_hash = f.commit.sha1_hash
                 /\ DOMAIN objects' = DOMAIN objects \cup {f.commit.sha1_hash}
                 /\ objects'[f.commit.sha1_hash] = zlib_compress(f.commit.full_data)
                 /\ \A h \in DOMAIN objects : objects'[h] = objects[h]
       /\ (pc = "c_stored" /\ pc' = "done") =>
             LET f == CommitOf(index, master, loc.author, loc.message,
                               loc.timestamp, loc.utc_offset)
             IN  /\ out'.ret = f.commit.sha1_hash
                 /\ master' = <<(f.commit.sha1_hash \o <<NL>>)>>
                 /\ objects' = objects
      ]_vars

\* create_commit has returned the second commit of a repository whose
\* index holds an entry.
C18_Witness ==
    /\ pc = "done" /\ out.cmd = "commit" /\ out.err = ""
    /\ IndexEntries # <<>>
    /\ Len(HeaderValues(objects, out.ret, "parent")) = 1

\* C11: create_pack on a set with a hash that is not in the object store
\* raises FileNotFoundError and yields no pack bytes, whatever else the set
\* holds; a push whose Encode step is given such a set ends with that
\* error, with no payload built and no POST issued.
C11_NoPartialPack ==
    /\ \A S \in SUBSET (DOMAIN objects \cup {ForeignHash}) :
          ~(S \subseteq DOMAIN objects)
             => create_pack(objects, S) = [err |-> "FileNotFoundError", data |-> <<>>]
    /\ (pc \in {"p_transmit", "p_interpret"})
          => loc.missing_objects \subseteq DOMAIN objects
    /\ (pc = "done" /\ out.cmd = "push" /\ ~(loc.missing_objects \subseteq DOMAIN objects))
          => /\ out.err = "FileNotFoundError"
             /\ loc.data = <<>>
             /\ Len(net) = 1 /\ net[1].method = "GET"

\* A push was given a set that holds a stored object and an unresolvable
\* hash, and has ended with FileNotFoundError.
C11_Witness ==
    /\ pc = "done" /\ out.cmd = "push" /\ out.err = "FileNotFoundError"
    /\ ForeignHash \in loc.missing_objects
    /\ loc.missing_objects \cap DOMAIN objects # {}

\* The lines of the stored object h that start with the given word
LinesOf(objs, h, word) ==
    SelectSeq(SplitLines(retrieve_object(objs, h).data),
              LAMBDA l : StartsWith(l, word))

\* h is stored and is not a commit, or is a commit whose body has no tree line
Malformed(objs, h) ==
    /\ h \in DOMAIN objs
    /\ \/ retrieve_object(objs, h).type # "commit"
       \/ LinesOf(objs, h, "tree") = <<>>

\* The hashes h names in its parent lines
ParentsOf(objs, h) ==
    {TakeBytes(SubSeq(l, 3, Len(l)), 40) :
        l \in {LinesOf(objs, h, "parent")[i] :
                  i \in 1 .. Len(LinesOf(objs, h, "parent"))}}

\* The objects reached from the frontier through the parent lines of commits
\* that have a tree line
RECURSIVE Ancestry(_, _, _)
Ancestry(objs, frontier, seen) ==
    IF frontier \subseteq seen THEN seen
    ELSE Ancestry(objs,
                  UNION {ParentsOf(objs, h) :
                           h \in {x \in frontier \ seen :
                                    x \in DOMAIN objs /\ ~Malformed(objs, x)}},
                  seen \cup frontier)

\* The two exceptions that stand for MalformedCommit: the failed assertion on
\* the kind and the exhausted search for the tree line
MalformedErrors == {"AssertionError", "StopIteration"}

\* Every tree named on the way resolves and every parent named is stored, so
\* that nothing but a malformed commit can stop the traversal from h
OthersResolve(objs, h) ==
    \A q \in Ancestry(objs, {h}, {}) :
       /\ q \in DOMAIN objs
       /\ ~Malformed(objs, q) =>
             LET l == LinesOf(objs, q, "tree")[1]
             IN  find_tree_objects(objs, TakeBytes(SubSeq(l, 3, Len(l)), 40)).err = ""

\* C14: find_commit_objects on a stored object that is not a commit, or on
\* a commit without a tree line, or on a commit that reaches such an object
\* through parent lines, raises an error and returns no set; the error is
\* the failed assertion or the exhausted tree-line search whenever every
\* other object on the way resolves.
C14_MalformedFails ==
    \A h \in DOMAIN objects :
       LET r == find_commit_objects(objects, h)
       IN  /\ Malformed(objects, h) => r.set = {} /\ r.err \in MalformedErrors
           /\ (\E q \in Ancestry(objects, {h}, {}) : Malformed(objects, q))
                 => /\ r.set = {} /\ r.err # ""
                    /\ OthersResolve(objects, h) => r.err \in MalformedErrors

\* The directory holds a commit with a tree line whose tree resolves and
\* whose parent is malformed: the traversal from it fails on the parent.
C14_Witness ==
    \E h \in DOMAIN objects :
       /\ ~Malformed(objects, h)
       /\ OthersResolve(objects, h)
       /\ \E q \in ParentsOf(objects, h) : Malformed(objects, q)
       /\ find_commit_objects(objects, h).err \in MalformedErrors
       /\ find_commit_objects(objects, h).set = {}

\* C12: read_index after write_index(entries) returns entries: the same
\* length and order, and every field of every entry as it was given.
C12_RoundTrip ==
    (pc = "done" /\ out.cmd = "write_index")
       => read_index(index) = [err |-> "", entries |-> out.ret]

\* C13: an add that succeeds leaves an index whose entries have distinct
\* paths, in which every path added has an entry, every entry of another
\* path is as it was, and there is one entry more for each path added that
\* had none.
C13_Upsert ==
    [][(pc = "idle" /\ pc' = "done" /\ out'.cmd = "add" /\ out'.err = "")
          => LET old == read_index(index).entries
                 new == read_index(index').entries
                 added == Range(loc'.paths)
             IN  /\ \A i, j \in 1 .. Len(new) : new[i].path = new[j].path => i = j
                 /\ \A p \in added : \E i \in 1 .. Len(new) : new[i].path = p
                 /\ \A e \in Range(old) : e.path \notin added => e \in Range(new)
                 /\ Len(new) = Len(old)
                       + Cardinality(added \ {e.path : e \in Range(old)})]_vars

\* The (mode, path, hash) records of a tree's bytes, in order
RECURSIVE TreeRecords(_)
TreeRecords(tree_data) ==
    LET sp == Find(tree_data, SP, 1)
        nul == Find(tree_data, NUL, sp)
        sha1 == TakeBytes(SubSeq(tree_data, nul + 1, Len(tree_data)), 20)
    IN  IF tree_data = <<>> \/ sp = 0 \/ nul = 0 \/ sha1 = <<>> THEN <<>>
        ELSE <<[mode |-> SubSeq(tree_data, 1, sp - 1),
                path |-> SubSeq(tree_data, sp + 1, nul - 1),
                hash |-> sha1]>>
               \o TreeRecords(SubSeq(tree_data, nul + 1 + Len(sha1), Len(tree_data)))

\* The paths of the entries read_index returns, in order
PathsIn(idx) ==
    LET entries == read_index(idx).entries
    IN  [i \in 1 .. Len(entries) |-> entries[i].path]

\* Insertion order: the paths of seq, then each path of paths that is not
\* among them, where it is first given
RECURSIVE InsertOrder(_, _)
InsertOrder(seq, paths) ==
    IF paths = <<>> THEN seq
    ELSE InsertOrder(IF Head(paths) \in Range(seq) THEN seq
                     ELSE Append(seq, Head(paths)), Tail(paths))

\* The tree half of C21: the tree a commit builds has one record for each
\* entry of the index, in the order of the index, with the entry's mode in
\* octal, its path and its hash.
TreeInIndexOrder ==
    (pc = "idle" /\ pc' = "c_tree")
       => LET entries == read_index(index).entries
              records == TreeRecords(ContentOf(objects', loc'.tree_hash))
          IN  /\ Len(records) = Len(entries)
              /\ \A i \in 1 .. Len(entries) :
                    /\ records[i].mode = <<[oct |-> entries[i].mode]>>
                    /\ Len(records[i].path) = 1
                    /\ records[i].path[1].utf8 = entries[i].path
                    /\ records[i].hash = entries[i].sha1

\* The index half of C21: the order of the index is insertion order; an add
\* leaves every path that was there where it was and puts the new ones
\* after them, in the order they were given.
IndexInInsertionOrder ==
    (pc = "idle" /\ pc' = "done" /\ out'.cmd = "add" /\ out'.err = "")
       => PathsIn(index') = InsertOrder(PathsIn(index), loc'.paths)

\* C21: a tree has exactly one (mode, path, hash) record for each entry of
\* the current index, in the order of the index, which is insertion order
\* (a path added again keeps its place) and not the sorted order of paths.
C21_TreeOrder == [][TreeInIndexOrder /\ IndexInInsertionOrder]_vars

\* C22: while the master ref is absent, a push issues no POST and never
\* reports success; it does not get past the computation of the object
\* set: once its GET is answered it ends there with the error that the
\* traversal raises on the missing tip, having issued the GET alone.
C22_NoTipNoPost ==
    (master = <<>> /\ (pc \in PushPcs \/ (pc = "done" /\ out.cmd = "push")))
       => /\ loc.local_sha1 = None
          /\ pc \notin {"p_encode", "p_transmit", "p_interpret"}
          /\ \A i \in 1 .. Len(net) : net[i].method # "POST"
          /\ ~PushSuccess
          /\ pc = "done" =>
                /\ out.err # ""
                /\ Len(net) = 1 /\ net[1].method = "GET"
                /\ DiscoverAnswered =>
                      /\ loc.remote_sha1 = get_remote_master_hash(loc.advert)
                      /\ find_commit_objects(objects, loc.local_sha1).err = out.err
                      /\ out.err = "TypeError"

\* A push without a master ref has ended in the traversal of its missing
\* tip, after a GET that the remote answered by naming its own master.
C22_Witness ==
    /\ pc = "done" /\ out.cmd = "push" /\ master = <<>>
    /\ out.err = "TypeError"
    /\ Len(net) = 1 /\ net[1].method = "GET"
    /\ loc.advert # <<>>
    /\ objects # <<>>

=============================================================================
